---- MODULE Spec2Model ----
(***************************************************************************)
(* Model of the equipment manager:                                         *)
(*   - the POST /api/assets handler of the Node service embedded in        *)
(*     EquipmentManagerSetup.iss (lines 46-60), with the database driver   *)
(*     (mssql) as its environment;                                         *)
(*   - the "sold to" visibility toggle of static/js/add_equipment.js.      *)
(*                                                                         *)
(* The handler is an async function: it runs synchronously up to each      *)
(* await, so one request is a sequence of steps (accept and call connect,  *)
(* connect settles and query is called, the statement is applied, the      *)
(* query settles and the response is sent) and steps of different requests *)
(* interleave.  The driver is outside the repository: a connect or a query *)
(* either resolves or rejects, and a statement is applied atomically: a    *)
(* rejected query has stored nothing, a resolved one has stored its row.   *)
(***************************************************************************)
EXTENDS Integers, Sequences, FiniteSets, TLC

VARIABLES
    pc,          \* per request: position in the handler
    reqBody,     \* per request: req.body, a JSON object (field -> value)
    locals,      \* per request: the six destructured constants
    err,         \* per request: the value caught by catch (err), if any
    responses,   \* per request: the responses sent with res.status().send()
    connects,    \* per request: calls of sql.connect made
    queries,     \* per request: calls of sql.query made
    added,       \* per request: rows its statement has added to Assets
    Assets,      \* the Assets table, in insertion order
    errorLog,    \* the lines written by console.error
    present,     \* the ids that document.getElementById finds
    value,       \* placement.value
    display,     \* style.display of the page's elements
    listeners,   \* the 'change' listeners registered on placement
    loaded,      \* the script of add_equipment.js has run
    thrown,      \* an exception escaped the script or a listener
    calls        \* invocations of toggleSold so far

apiVars == <<pc, reqBody, locals, err, responses, connects, queries, added,
             Assets, errorLog>>
domVars == <<present, value, display, listeners, loaded, thrown, calls>>
vars == <<pc, reqBody, locals, err, responses, connects, queries, added,
          Assets, errorLog, present, value, display, listeners, loaded,
          thrown, calls>>

----------------------------------------------------------------------------
(* Bounds *)

\* requests the clients send in one run
MaxReqs == 2
\* distinct non-null JSON values a field may carry
MaxVal == 2
\* change events that reach the listener in one run
MaxEvents == 2

Reqs == 1..MaxReqs

----------------------------------------------------------------------------
(* Values and payloads *)

\* the value of a destructured property the body does not have
Undefined == <<"undefined">>
\* JSON null
Null == <<"null">>
\* a JSON scalar (string, number, date text)
Scalar(n) == <<"value", n>>

JsonVals == {Null} \cup {Scalar(n) : n \in 1..MaxVal}

\* the properties the handler reads from req.body
Fields == {"name", "vendor", "warranty_expiry", "status", "barcode", "history"}

\* the column list of the INSERT statement, in order
ColumnList == <<"name", "vendor", "warranty_expiry", "status", "barcode", "history">>

\* the interpolated values of the INSERT statement, in order
ValueList == <<"name", "vendor", "warranty_expiry", "status", "barcode", "history">>

\* every JSON object over the six fields: any subset present, any values
AllBodies == UNION {[S -> JsonVals] : S \in SUBSET Fields}

\* the bodies sent when several requests are in flight: the empty object and
\* the objects that give all six fields the same value
SampleBodies == {[f \in {} |-> Null]} \cup {[f \in Fields |-> v] : v \in JsonVals}

NoBody == <<"none">>

\* a mutation of Destructure: the pattern gives each name the default ''
DestructureWithDefaults(b) ==
    [f \in Fields |-> IF f \in DOMAIN b THEN b[f] ELSE Scalar(0)]

\* const { name, vendor, ... } = req.body
Destructure(b) ==
    [f \in Fields |-> IF f \in DOMAIN b THEN b[f] ELSE Undefined]

\* a mutation of BindRow: vendor and name are bound to each other's column
BindRowSwapped(l) ==
    [c \in Fields |->
        IF c = "name" THEN l["vendor"]
        ELSE IF c = "vendor" THEN l["name"]
        ELSE l[c]]

\* the row the tagged template binds: the i-th value goes to the i-th column
BindRow(l) ==
    [c \in Fields |->
        l[ValueList[CHOOSE i \in 1..Len(ColumnList) : ColumnList[i] = c]]]

\* a mutation of InsertInto: the statement replaces the newest row
InsertIntoOverwrite(table, row) ==
    IF table = <<>> THEN <<row>> ELSE [table EXCEPT ![Len(table)] = row]

\* INSERT INTO Assets (...) VALUES (...), applied atomically
InsertInto(table, row) == Append(table, row)

SuccessMessage == "הציוד נשמר בהצלחה!"
ErrorMessage == "שגיאה בשמירת הציוד"

\* res.status(200).send({ message: ... })
SuccessResponse == [status |-> 200, key |-> "message", text |-> SuccessMessage]

\* a mutation of ErrorResponse: the caught error is sent to the client
ErrorResponseLeaky(e) == [status |-> 500, key |-> "error", text |-> e]

\* res.status(500).send({ error: ... })
ErrorResponse(e) == [status |-> 500, key |-> "error", text |-> ErrorMessage]

\* the ways the driver rejects a connect and a query
ConnectErrors == {"ELOGIN", "ESOCKET"}
QueryErrors == {"EREQUEST", "ECONNCLOSED"}
NoErr == "none"

----------------------------------------------------------------------------
(* The page of the form script *)

SOLD == "נמכר"
SelectValues == {SOLD, "במלאי", ""}
Elements == {"placement", "sold_to_wrap", "other"}
Displays == {"", "none", "block"}
Absent == "absent"
NoValue == "no-select"

----------------------------------------------------------------------------
(* Initial states *)

ApiInit ==
    /\ pc = [r \in Reqs |-> "idle"]
    /\ reqBody = [r \in Reqs |-> NoBody]
    /\ locals = [r \in Reqs |-> NoBody]
    /\ err = [r \in Reqs |-> NoErr]
    /\ responses = [r \in Reqs |-> <<>>]
    /\ connects = [r \in Reqs |-> 0]
    /\ queries = [r \in Reqs |-> 0]
    /\ added = [r \in Reqs |-> 0]
    /\ Assets = <<>>
    /\ errorLog = <<>>

\* no page is open
NoPage ==
    /\ present = {}
    /\ value = NoValue
    /\ display = [e \in Elements |-> Absent]
    /\ listeners = {}
    /\ loaded = FALSE
    /\ thrown = FALSE
    /\ calls = 0

\* a page before its script runs: the two elements may each be missing
PageInit ==
    /\ present \in {S \cup {"other"} : S \in SUBSET {"placement", "sold_to_wrap"}}
    /\ value \in IF "placement" \in present THEN SelectValues ELSE {NoValue}
    /\ display \in {d \in [Elements -> Displays \cup {Absent}] :
                      \A e \in Elements : (d[e] = Absent) <=> (e \notin present)}
    /\ listeners = {}
    /\ loaded = FALSE
    /\ thrown = FALSE
    /\ calls = 0

Init == ApiInit /\ NoPage

DomInit == ApiInit /\ PageInit

----------------------------------------------------------------------------
(* POST /api/assets *)

\* a mutation of Post: the six names are shared by all requests
PostSharedLocals(r, b) ==
    /\ pc[r] = "idle"
    /\ \A q \in Reqs : q < r => pc[q] # "idle"
    /\ reqBody' = [reqBody EXCEPT ![r] = b]
    /\ locals' = [q \in Reqs |-> Destructure(b)]
    /\ connects' = [connects EXCEPT ![r] = @ + 1]
    /\ pc' = [pc EXCEPT ![r] = "connecting"]
    /\ UNCHANGED <<err, responses, queries, added, Assets, errorLog>>
    /\ UNCHANGED domVars

\* the request is dispatched to the handler: the body is destructured and
\* sql.connect(config) is called; requests are numbered in arrival order
Post(r, b) ==
    /\ pc[r] = "idle"
    /\ \A q \in Reqs : q < r => pc[q] # "idle"
    /\ reqBody' = [reqBody EXCEPT ![r] = b]
    /\ locals' = [locals EXCEPT ![r] = Destructure(b)]
    /\ connects' = [connects EXCEPT ![r] = @ + 1]
    /\ pc' = [pc EXCEPT ![r] = "connecting"]
    /\ UNCHANGED <<err, responses, queries, added, Assets, errorLog>>
    /\ UNCHANGED domVars

\* a mutation of Catch: the error is logged and no response is sent
CatchSilent(r, e) ==
    /\ err' = [err EXCEPT ![r] = e]
    /\ errorLog' = Append(errorLog, [req |-> r, err |-> e])
    /\ pc' = [pc EXCEPT ![r] = "hung"]
    /\ UNCHANGED responses

\* catch (err) { console.error(..., err); res.status(500).send(...) }
Catch(r, e) ==
    /\ err' = [err EXCEPT ![r] = e]
    /\ errorLog' = Append(errorLog, [req |-> r, err |-> e])
    /\ responses' = [responses EXCEPT ![r] = Append(@, ErrorResponse(e))]
    /\ pc' = [pc EXCEPT ![r] = "done"]

\* a mutation of ConnectResolve: the response is sent without awaiting the query
ConnectResolveEarlyAck(r) ==
    /\ pc[r] = "connecting"
    /\ queries' = [queries EXCEPT ![r] = @ + 1]
    /\ responses' = [responses EXCEPT ![r] = Append(@, SuccessResponse)]
    /\ pc' = [pc EXCEPT ![r] = "querying"]
    /\ UNCHANGED <<reqBody, locals, err, connects, added, Assets, errorLog>>
    /\ UNCHANGED domVars

\* await sql.connect(config) resolves: sql.query`INSERT ...` is called
ConnectResolve(r) ==
    /\ pc[r] = "connecting"
    /\ queries' = [queries EXCEPT ![r] = @ + 1]
    /\ pc' = [pc EXCEPT ![r] = "querying"]
    /\ UNCHANGED <<reqBody, locals, err, responses, connects, added, Assets,
                   errorLog>>
    /\ UNCHANGED domVars

\* a mutation of ConnectReject: the connect is tried a second time
ConnectRejectRetry(r, e) ==
    /\ pc[r] = "connecting"
    /\ IF connects[r] < 2
         THEN /\ connects' = [connects EXCEPT ![r] = @ + 1]
              /\ UNCHANGED <<pc, err, errorLog, responses>>
         ELSE /\ Catch(r, e)
              /\ UNCHANGED connects
    /\ UNCHANGED <<reqBody, locals, queries, added, Assets>>
    /\ UNCHANGED domVars

\* await sql.connect(config) rejects with e: control goes to catch
ConnectReject(r, e) ==
    /\ pc[r] = "connecting"
    /\ Catch(r, e)
    /\ UNCHANGED <<reqBody, locals, connects, queries, added, Assets>>
    /\ UNCHANGED domVars

\* the database applies the statement of request r
QueryApply(r) ==
    /\ pc[r] = "querying"
    /\ Assets' = InsertInto(Assets, BindRow(locals[r]))
    /\ added' = [added EXCEPT ![r] = @ + 1]
    /\ pc' = [pc EXCEPT ![r] = "applied"]
    /\ UNCHANGED <<reqBody, locals, err, responses, connects, queries, errorLog>>
    /\ UNCHANGED domVars

\* await sql.query`...` resolves: res.status(200).send(...)
QueryResolve(r) ==
    /\ pc[r] = "applied"
    /\ responses' = [responses EXCEPT ![r] = Append(@, SuccessResponse)]
    /\ pc' = [pc EXCEPT ![r] = "done"]
    /\ UNCHANGED <<reqBody, locals, err, connects, queries, added, Assets,
                   errorLog>>
    /\ UNCHANGED domVars

\* await sql.query`...` rejects with e, nothing stored: control goes to catch
QueryReject(r, e) ==
    /\ pc[r] = "querying"
    /\ Catch(r, e)
    /\ UNCHANGED <<reqBody, locals, connects, queries, added, Assets>>
    /\ UNCHANGED domVars

\* the steps of the handler after the request was accepted
Handle(r) ==
    \/ ConnectResolve(r)
    \/ \E e \in ConnectErrors : ConnectReject(r, e)
    \/ QueryApply(r)
    \/ QueryResolve(r)
    \/ \E e \in QueryErrors : QueryReject(r, e)

\* several clients, bodies from SampleBodies
Next ==
    \/ \E r \in Reqs : pc[r] = "idle" /\ \E b \in SampleBodies : Post(r, b)
    \/ \E r \in Reqs : Handle(r)

Spec == Init /\ [][Next]_vars

\* one client, every body over the six fields
PayloadNext ==
    \/ pc[1] = "idle" /\ \E b \in AllBodies : Post(1, b)
    \/ Handle(1)

PayloadSpec == Init /\ [][PayloadNext]_vars

\* every connect and every query that was called eventually settles, and the
\* event loop then resumes the handler
FairSpec ==
    /\ Spec
    /\ \A r \in Reqs : WF_vars(Handle(r))

----------------------------------------------------------------------------
(* static/js/add_equipment.js *)

\* document.getElementById(id): the element, or null
getElementById(id) == IF id \in present THEN id ELSE Absent

\* el.style.display = s; a TypeError when el is null
SetDisplay(d, el, s) ==
    IF el = Absent
      THEN [display |-> d, threw |-> TRUE]
      ELSE [display |-> [d EXCEPT ![el] = s], threw |-> FALSE]

\* a mutation of SoldDisplay: the comparison is inverted
SoldDisplayInverted(v) == IF v # SOLD THEN "" ELSE "none"

\* (placement.value === SOLD) ? '' : 'none'
SoldDisplay(v) == IF v = SOLD THEN "" ELSE "none"

\* a mutation of toggleSold: the guard tests placement only
toggleSoldUnguarded(placement, soldWrap, d, v) ==
    IF placement = Absent
      THEN [display |-> d, threw |-> FALSE]
      ELSE SetDisplay(d, soldWrap, SoldDisplay(v))

\* function toggleSold(), with the two elements the closure captured, the
\* current displays d and the select's current value v
toggleSold(placement, soldWrap, d, v) ==
    IF placement = Absent \/ soldWrap = Absent
      THEN [display |-> d, threw |-> FALSE]
      ELSE SetDisplay(d, soldWrap, SoldDisplay(v))

\* the page loads and the script runs once
RunScript ==
    /\ ~loaded
    /\ loaded' = TRUE
    /\ LET placement == getElementById("placement")
           soldWrap == getElementById("sold_to_wrap")
           t == toggleSold(placement, soldWrap, display, value)
       IN IF placement # Absent
            THEN /\ listeners' = listeners \cup {"toggleSold"}
                 /\ display' = t.display
                 /\ thrown' = (thrown \/ t.threw)
                 /\ calls' = calls + 1
            ELSE UNCHANGED <<listeners, display, thrown, calls>>
    /\ UNCHANGED <<present, value>>
    /\ UNCHANGED apiVars

\* the user picks another option: the value changes and the change event is
\* dispatched to the registered listeners
Change(v) ==
    /\ "placement" \in present
    /\ v # value
    /\ calls < MaxEvents + 1
    /\ value' = v
    /\ LET t == toggleSold(getElementById("placement"),
                           getElementById("sold_to_wrap"), display, v)
       IN IF "toggleSold" \in listeners
            THEN /\ display' = t.display
                 /\ thrown' = (thrown \/ t.threw)
                 /\ calls' = calls + 1
            ELSE UNCHANGED <<display, thrown, calls>>
    /\ UNCHANGED <<present, listeners, loaded>>
    /\ UNCHANGED apiVars

DomNext ==
    \/ RunScript
    \/ \E v \in SelectValues : Change(v)

DomSpec == DomInit /\ [][DomNext]_vars

----------------------------------------------------------------------------
(* Properties *)

\* the row a body stands for: each field it has, undefined for the others
RowOf(b) == [f \in Fields |-> IF f \in DOMAIN b THEN b[f] ELSE Undefined]

Answered(r, code) ==
    /\ pc[r] = "done"
    /\ Len(responses[r]) >= 1
    /\ responses[r][Len(responses[r])].status = code

\* the number of log lines written for request r
LogLines(r) == Cardinality({i \in 1..Len(errorLog) : errorLog[i].req = r})

\* C1: when the connect and the insert of a request both succeeded, the
\* request is answered 200 with the success message and exactly one row has
\* been added to Assets, whose columns equal the fields of the body.
C1_SuccessStoresPayload ==
    \A r \in Reqs :
        (pc[r] = "done" /\ err[r] = NoErr) =>
            /\ responses[r] = <<[status |-> 200, key |-> "message",
                                 text |-> SuccessMessage]>>
            /\ added[r] = 1
            /\ Len(Assets) = 1
            /\ \A f \in DOMAIN reqBody[r] : Assets[1][f] = reqBody[r][f]

\* C1 witness: a body with all six fields, name and vendor different, stored
C1_Witness ==
    /\ pc[1] = "done"
    /\ err[1] = NoErr
    /\ DOMAIN reqBody[1] = Fields
    /\ reqBody[1]["name"] # reqBody[1]["vendor"]
    /\ Len(Assets) = 1

\* C2: a request whose connect or insert failed is answered 500 with the one
\* fixed error body, whatever the step, the cause and the body were.
C2_FailureIsUniform ==
    \A r \in Reqs :
        (pc[r] = "done" /\ err[r] # NoErr) =>
            responses[r] = <<[status |-> 500, key |-> "error",
                              text |-> ErrorMessage]>>

\* C2 witness: the insert of a request with a non-empty body was rejected
C2_Witness ==
    /\ pc[1] = "done"
    /\ err[1] \in QueryErrors
    /\ queries[1] = 1
    /\ DOMAIN reqBody[1] # {}
    /\ Len(responses[1]) = 1

\* C3: two requests with distinct bodies whose connects and inserts succeeded
\* each have their own row in Assets, at two different positions, whatever
\* the interleaving of their steps was.
C3_NoLostInsert ==
    \A r \in Reqs, q \in Reqs :
        (/\ r # q
         /\ reqBody[r] # reqBody[q]
         /\ Answered(r, 200)
         /\ Answered(q, 200)) =>
            \E i \in 1..Len(Assets), j \in 1..Len(Assets) :
                /\ i # j
                /\ Assets[i] = RowOf(reqBody[r])
                /\ Assets[j] = RowOf(reqBody[q])

\* C3 witness: the second request's row was stored before the first one's
C3_Witness ==
    /\ Answered(1, 200)
    /\ Answered(2, 200)
    /\ reqBody[1] # reqBody[2]
    /\ Len(Assets) >= 2
    /\ Assets[1] = RowOf(reqBody[2])
    /\ Assets[2] = RowOf(reqBody[1])

\* C4: a body that omits some of the six fields is answered 200 once the
\* connect and the insert succeeded, with one row in which each omitted field
\* is null or undefined and each supplied field is as given; no response is
\* sent for a reason other than a rejected connect or query.
C4_MissingFieldsAccepted ==
    \A r \in Reqs :
        /\ (pc[r] = "done" /\ err[r] = NoErr /\ DOMAIN reqBody[r] # Fields) =>
              /\ Answered(r, 200)
              /\ Len(Assets) = 1
              /\ \A f \in Fields \ DOMAIN reqBody[r] :
                    Assets[1][f] \in {Null, Undefined}
              /\ \A f \in DOMAIN reqBody[r] : Assets[1][f] = reqBody[r][f]
        /\ Answered(r, 500) => err[r] \in ConnectErrors \cup QueryErrors

\* C4 witness: a body with only some of the fields was stored
C4_Witness ==
    /\ Answered(1, 200)
    /\ DOMAIN reqBody[1] = {"name", "barcode"}
    /\ Len(Assets) = 1

\* C7: a request gets exactly one response, 200 or 500, sent when it ends; a
\* request answered 500 has added no row and one answered 200 exactly one.
C7_OneResponseNoPartialSuccess ==
    \A r \in Reqs :
        /\ Len(responses[r]) = (IF pc[r] = "done" THEN 1 ELSE 0)
        /\ pc[r] = "done" => (Answered(r, 200) \/ Answered(r, 500))
        /\ Answered(r, 500) => added[r] = 0
        /\ Answered(r, 200) => added[r] = 1

\* C7 witness: one request answered 200 and another answered 500
C7_Witness ==
    \E r \in Reqs, q \in Reqs :
        /\ Answered(r, 200)
        /\ Answered(q, 500)
        /\ err[q] \in QueryErrors

\* C8: a request makes at most one connect call and at most one query call,
\* and no query call after its connect was rejected.
C8_NoRetry ==
    \A r \in Reqs :
        /\ connects[r] <= 1
        /\ queries[r] <= 1
        /\ err[r] \in ConnectErrors => queries[r] = 0

\* C8 witness: a request ended after its connect was rejected
C8_Witness ==
    \E r \in Reqs :
        /\ pc[r] = "done"
        /\ err[r] \in ConnectErrors
        /\ connects[r] = 1

\* C9: if every connect and query settles, every accepted request is
\* eventually answered 200 or 500, also while other requests are in flight.
C9_EveryRequestAnswered ==
    \A r \in Reqs :
        (pc[r] # "idle") ~> (Answered(r, 200) \/ Answered(r, 500))

\* C9 witness: a request is answered while another one is still in flight
C9_Witness ==
    \E r \in Reqs, q \in Reqs :
        /\ pc[r] = "done"
        /\ Len(responses[r]) = 1
        /\ pc[q] \in {"connecting", "querying", "applied"}

AllFinished == \A r \in Reqs : pc[r] \in {"idle", "done"}

\* C10: Assets only grows by appended rows, and once no request is in flight
\* it holds as many rows as requests were answered 200, with one log line for
\* each request answered 500 and none for a request answered 200.
C10_AppendOnly ==
    /\ [][/\ Len(Assets') >= Len(Assets)
          /\ SubSeq(Assets', 1, Len(Assets)) = Assets]_vars
    /\ [](AllFinished =>
            /\ Len(Assets) = Cardinality({r \in Reqs : Answered(r, 200)})
            /\ \A r \in Reqs :
                  /\ Answered(r, 500) => LogLines(r) = 1
                  /\ Answered(r, 200) => LogLines(r) = 0)

\* C10 witness: all requests ended, the first rejected and logged, the
\* others answered 200 with their rows stored
C10_Witness ==
    /\ \A r \in Reqs : pc[r] = "done"
    /\ Answered(1, 500)
    /\ \A r \in Reqs \ {1} : Answered(r, 200)
    /\ Len(Assets) = MaxReqs - 1
    /\ Len(errorLog) = 1

BothPresent == {"placement", "sold_to_wrap"} \subseteq present

\* C5: with both elements on the page, after the script ran and after every
\* change event the wrapper's display is '' exactly when the select's value
\* is the sold literal, and 'none' for any other value.
C5_VisibleIffSold ==
    (BothPresent /\ loaded) =>
        /\ (display["sold_to_wrap"] = "") <=> (value = SOLD)
        /\ (value # SOLD) => display["sold_to_wrap"] = "none"

\* C5 witness: after a change event to the sold value the wrapper is shown
C5_Witness ==
    /\ BothPresent
    /\ loaded
    /\ calls >= 2
    /\ value = SOLD
    /\ display["sold_to_wrap"] = ""

\* C6: when the select or the wrapper is missing, the script and every later
\* change event raise no error and leave every element's display as it was.
C6_AbsentIsNoOp ==
    [][~BothPresent => (display' = display /\ ~thrown')]_vars

\* C6 witness: the wrapper is missing, the script ran and a change event
\* called toggleSold
C6_Witness ==
    /\ "placement" \in present
    /\ "sold_to_wrap" \notin present
    /\ loaded
    /\ calls >= 2
    /\ ~thrown

====
